---- MODULE Spec2Model ----
(***************************************************************************)
(* The authentication and per-user watchlist service of tinvest:           *)
(*   backend/src/routes/auth-db.ts (src/unnamed/part_000),                 *)
(*   backend/src/routes/google-auth-db.ts, backend/src/routes/watchlist.ts *)
(* Every handler is an async function; each `await` is a suspension point, *)
(* so a handler is a sequence of steps and the steps of the requests in    *)
(* flight interleave.  AuthSpec runs the /api/auth routes from an empty     *)
(* store and WatchSpec the /api/watchlist routes for two registered users, *)
(* each with MaxReqs requests at once; AuthSeqSpec and WatchSeqSpec run    *)
(* the same handlers one request at a time.  ClientSpec runs one browser   *)
(* of the frontend (frontend/src/App.tsx and its pages) over the service:  *)
(* its localStorage, the page on screen and what that page awaits.         *)
(***************************************************************************)
EXTENDS Integers, Sequences, FiniteSets, TLC

VARIABLES users, watchlist, now, issued, regLog, req, client

vars == <<users, watchlist, now, issued, regLog, req, client>>

-----------------------------------------------------------------------------
(* Bounds of the model *)

MaxReqs == 2
MaxUsers == 2
MaxTime == 1
MaxDays == 8

Slots == 1..MaxReqs

-----------------------------------------------------------------------------
(* Values *)

NULL == "NULL"
Absent == "<undefined>"

\* req.body.email of /register and /login, as the client sends it
RawEmails == {"ann@x.com", "j.doe@gmail.com", "bad"}

\* req.body.password; Absent is a body without the field
Passwords == {"secret1", "abc"}
LoginPasswords == {"secret1", "hunter22", Absent}

\* req.body.name of /register
RegNames == {Absent}

\* symbol and name of a watchlist request ("" is the empty string)
Symbols == {"AAPL", "MSFT"}
\* the symbol the interleaved requests of WatchSpec contend for
RaceSymbols == {"AAPL"}
StockNames == {"Apple Inc."}

\* req.body.isFavorite as JSON text: two booleans and a string
FavValues == {"true", "false", "\"true\""}

\* the payloads Google's verification can return for a credential
GoogleSubs == {"g1", "g2"}
GoogleEmails == {"ann@x.com", "j.doe@gmail.com"}

MinPasswordLen == 6
TokenLifetimeDays == 7

-----------------------------------------------------------------------------
(* express-validator *)

\* isEmail()
IsEmail(e) == e \in {"ann@x.com", "j.doe@gmail.com", "jdoe@gmail.com"}

\* normalizeEmail() with its default options: the address is lower-cased and,
\* for a gmail.com address, the dots of the local part are removed
NormalizeEmail(e) ==
    IF e = "j.doe@gmail.com" THEN "jdoe@gmail.com" ELSE e

\* exists() in the place of isLength({ min: 6 })
IsLengthAny(p) == p # Absent

\* isLength({ min: 6 })
IsLengthMin(p) == p # Absent /\ Len(p) >= MinPasswordLen

-----------------------------------------------------------------------------
(* bcryptjs *)

\* bcrypt.hash(password, await bcrypt.genSalt(10))
BcryptHash(p) == "$2a$10$" \o p

\* bcrypt.compare(password, hash)
BcryptCompare(p, h) == h = BcryptHash(p)

-----------------------------------------------------------------------------
(* jsonwebtoken *)

NoToken == [userId |-> 0, email |-> NULL, googleId |-> Absent, iat |-> 0, key |-> "none"]

\* jwt.sign({ userId, email }, SECRET, { expiresIn: '7d' })
JwtSign(uid, email, gid, t) ==
    [userId |-> uid, email |-> email, googleId |-> gid, iat |-> t, key |-> "server"]

\* a token signed with another key
ForgedToken(uid) ==
    [userId |-> uid, email |-> NULL, googleId |-> Absent, iat |-> 0, key |-> "other"]

\* a verification that still accepts the token at its exp
JwtVerifyLate(tok, t) == tok.key = "server" /\ t <= tok.iat + TokenLifetimeDays

\* jwt.verify(token, SECRET): the signature and the exp claim
JwtVerify(tok, t) == tok.key = "server" /\ t < tok.iat + TokenLifetimeDays

-----------------------------------------------------------------------------
(* Responses: res.status(s).json(body) *)

NoUserView == [id |-> 0, email |-> NULL, name |-> NULL, picture |-> Absent]

NoRes == [status |-> 0, message |-> Absent, errors |-> Absent, token |-> NoToken,
          user |-> NoUserView, watchlist |-> Absent]

Msg(s, m) == [NoRes EXCEPT !.status = s, !.message = m]

ValidationFailed == [NoRes EXCEPT !.status = 400, !.errors = "errors.array()"]

AuthOk(s, m, tok, view) ==
    [NoRes EXCEPT !.status = s, !.message = m, !.token = tok, !.user = view]

-----------------------------------------------------------------------------
(* The store *)

NoUser == [id |-> 0, email |-> NULL, password |-> NULL, google_id |-> NULL,
           name |-> NULL, picture |-> NULL]

\* SELECT * FROM users WHERE email = ?
SelectByEmail(us, e) == {u \in us : u.email = e}

\* SELECT * FROM users WHERE id = ?
SelectById(us, id) == {u \in us : u.id = id}

\* the AUTO_INCREMENT id of the next users row (no row is ever deleted)
NextUserId(us) == Cardinality(us) + 1

\* users.email with a plain index: no INSERT is rejected
EmailNeverTaken(us, e) == FALSE

\* users.email is UNIQUE: an INSERT of a present email is rejected
EmailTaken(us, e) == \E u \in us : u.email = e

\* name || null
OrNull(v) == IF v = Absent \/ v = "" THEN NULL ELSE v

-----------------------------------------------------------------------------
(* Requests *)

\* req.body.credential, by what client.verifyIdToken makes of it: absent,
\* rejected, accepted with no payload, or accepted with the payload's claims
NoCred == [kind |-> "none", sub |-> Absent, email |-> Absent, name |-> Absent,
           picture |-> Absent]

Credentials ==
    {NoCred, [NoCred EXCEPT !.kind = "invalid"], [NoCred EXCEPT !.kind = "nopayload"]}
    \cup {[kind |-> "valid", sub |-> s, email |-> e, name |-> "G", picture |-> "pic"] :
             s \in GoogleSubs, e \in GoogleEmails \cup {Absent}}

\* typeof of a JSON value
TypeOf(v) == IF v \in {"true", "false"} THEN "boolean" ELSE "string"

Range(s) == {s[i] : i \in 1..Len(s)}

NoIn == [email |-> Absent, rawEmail |-> Absent, password |-> Absent, name |-> Absent,
         symbol |-> Absent, fav |-> Absent, cred |-> NoCred, auth |-> NoToken]

\* what held of the store when a request arrived
NoPre == [emailFree |-> FALSE, emailStored |-> FALSE, oauthOnly |-> FALSE,
          hasEntry |-> FALSE, wasFavorite |-> FALSE, linkable |-> FALSE,
          storeFailed |-> FALSE, during |-> {}]

Idle == [op |-> "idle", pc |-> "idle", in |-> NoIn, pre |-> NoPre, user |-> NoUser,
         res |-> NoRes]

InFlight(r) == req[r].pc \notin {"idle", "done"}

\* the requests in flight when one arrives
Others(r) == {q \in Slots \ {r} : InFlight(q)}

Begin(r, op, pc, in, pre) ==
    req' = [req EXCEPT ![r] = [op |-> op, pc |-> pc, in |-> in,
                               pre |-> [pre EXCEPT !.during = Others(r)],
                               user |-> NoUser, res |-> NoRes]]

Finish(r, op, in, pre, res) ==
    req' = [req EXCEPT ![r] = [op |-> op, pc |-> "done", in |-> in, pre |-> pre,
                               user |-> NoUser, res |-> res]]

Reply(r, res) == req' = [req EXCEPT ![r].pc = "done", ![r].res = res]

Goto(r, pc) == req' = [req EXCEPT ![r].pc = pc]

-----------------------------------------------------------------------------
(* The browser client: localStorage and the page on screen *)

\* the keys that a sign-in and handleLogout remove, next to 'token'
SharedKeys ==
    {"watchlist-data", "watchlist-is-real-data", "dashboard-data",
     "dashboard-is-real-data", "crypto-data", "crypto-is-real-data", "news-data"}

\* `watchlist-data-${userId}` and `watchlist-is-real-data-${userId}`, with
\* userId the text of the token's userId (payload.userId?.toString())
WatchlistDataKey(uid) == "watchlist-data-" \o uid
WatchlistRealKey(uid) == "watchlist-is-real-data-" \o uid

\* the keys of localStorage the pages use, 'token' apart
StorageKeys ==
    SharedKeys \cup {"news-is-real-data"}
    \cup {WatchlistDataKey(ToString(i)) : i \in 1..MaxUsers}
    \cup {WatchlistRealKey(ToString(i)) : i \in 1..MaxUsers}

\* import.meta.env of the build
EnvKeys == {"VITE_FINNHUB_API_KEY", "VITE_NEWS_API_KEY"}

RECURSIVE Join(_)
Join(l) ==
    IF l = <<>> THEN ""
    ELSE IF Len(l) = 1 THEN l[1]
    ELSE l[1] \o "," \o Join(Tail(l))

\* JSON.stringify of a list of stocks, each stock standing by its symbol
Stringify(l) == "[" \o Join(l) \o "]"

\* the lists of stocks a watchlist can hold
SymbolLists ==
    UNION {{l \in [1..n -> Symbols] : \A i, j \in 1..n : i # j => l[i] # l[j]} :
             n \in 0..Cardinality(Symbols)}

\* JSON.parse of what Stringify wrote
Parse(text) == CHOOSE l \in SymbolLists : Stringify(l) = text

\* a run of fetchStockData of the Watchlist page: the watchlistStocks and the
\* userId of the render that called it, and whether its component is mounted
NoRefresh == [pc |-> "idle", symbols |-> <<>>, userId |-> NULL, live |-> FALSE]

\* a browser that has not signed in, on the login page
NoClient ==
    [env |-> {}, token |-> NoToken, storage |-> [k \in StorageKeys |-> Absent],
     page |-> "login", mounted |-> TRUE, loading |-> {},
     userId |-> NULL, watchlistStocks |-> <<>>, fetch |-> "none", rerender |-> FALSE,
     stocks |-> <<>>, isRealData |-> FALSE, refresh |-> NoRefresh]

-----------------------------------------------------------------------------
Init ==
    /\ users = {}
    /\ watchlist = <<>>
    /\ now = 0
    /\ issued = {}
    /\ regLog = {}
    /\ req = [r \in Slots |-> Idle]
    /\ client = NoClient

\* the token the client keeps (localStorage 'token') replaces its older one
Keep(toks, token) == {t \in toks : t.userId # token.userId} \cup {token}

\* requests in flight that may still insert a users row
Creating == Cardinality({q \in Slots : InFlight(q) /\ req[q].op \in {"register", "google"}})

-----------------------------------------------------------------------------
(* POST /api/auth/register *)

EmailPre(e) ==
    [NoPre EXCEPT !.emailFree = SelectByEmail(users, NormalizeEmail(e)) = {},
                  !.emailStored = \E u \in users : u.email = e,
                  !.oauthOnly = \E u \in users : u.email = e /\ u.password = NULL]

RegisterUserView(u) == [NoUserView EXCEPT !.id = u.id, !.email = u.email, !.name = u.name]

\* the validation chain and the early return of lines 29-33
StartRegister(r) ==
    /\ req[r].op = "idle"
    /\ Cardinality(users) + Creating < MaxUsers
    /\ \E e \in RawEmails, p \in Passwords, n \in RegNames :
         LET in == [NoIn EXCEPT !.rawEmail = e, !.email = NormalizeEmail(e),
                                !.password = p, !.name = n]
         IN  IF IsEmail(e) /\ IsLengthMin(p)
             THEN Begin(r, "register", "reg_check", in, EmailPre(e))
             ELSE Finish(r, "register", in, EmailPre(e), ValidationFailed)
    /\ UNCHANGED <<users, watchlist, now, issued, regLog, client>>

\* lines 39-47
RegisterCheck(r) ==
    /\ req[r].pc = "reg_check"
    /\ IF SelectByEmail(users, req[r].in.email) # {}
       THEN Reply(r, Msg(400, "User already exists with this email"))
       ELSE Goto(r, "reg_hash")
    /\ UNCHANGED <<users, watchlist, now, issued, regLog, client>>

\* lines 50-51
RegisterHash(r) ==
    /\ req[r].pc = "reg_hash"
    /\ Goto(r, "reg_insert")
    /\ UNCHANGED <<users, watchlist, now, issued, regLog, client>>

\* the row, had /register left normalizeEmail() out
RegisterRowRawEmail(us, in) ==
    [id |-> NextUserId(us), email |-> in.rawEmail, password |-> BcryptHash(in.password),
     google_id |-> NULL, name |-> OrNull(in.name), picture |-> NULL]

RegisterRow(us, in) ==
    [id |-> NextUserId(us), email |-> in.email, password |-> BcryptHash(in.password),
     google_id |-> NULL, name |-> OrNull(in.name), picture |-> NULL]

\* lines 54-57, and the catch of lines 82-85 when the INSERT is rejected
RegisterInsert(r) ==
    /\ req[r].pc = "reg_insert"
    /\ IF EmailTaken(users, req[r].in.email)
       THEN /\ Reply(r, Msg(500, "Server error"))
            /\ UNCHANGED users
       ELSE /\ users' = users \cup {RegisterRow(users, req[r].in)}
            /\ req' = [req EXCEPT ![r].pc = "reg_fetch",
                                  ![r].user = RegisterRow(users, req[r].in)]
    /\ UNCHANGED <<watchlist, now, issued, regLog, client>>

\* lines 60-81
RegisterFetch(r) ==
    /\ req[r].pc = "reg_fetch"
    /\ \E newUser \in SelectById(users, req[r].user.id) :
         LET token == JwtSign(newUser.id, newUser.email, Absent, now)
         IN  /\ Reply(r, AuthOk(201, "User created successfully", token,
                               RegisterUserView(newUser)))
             /\ issued' = Keep(issued, token)
             /\ regLog' = regLog \cup {[email |-> req[r].in.rawEmail,
                                        password |-> req[r].in.password,
                                        id |-> newUser.id]}
    /\ UNCHANGED <<users, watchlist, now, client>>

-----------------------------------------------------------------------------
(* POST /api/auth/login *)

\* lines 97-101: isEmail().normalizeEmail() and password exists()
StartLogin(r) ==
    /\ req[r].op = "idle"
    /\ \E e \in RawEmails, p \in LoginPasswords :
         LET in == [NoIn EXCEPT !.rawEmail = e, !.email = NormalizeEmail(e), !.password = p]
         IN  IF IsEmail(e) /\ p # Absent
             THEN Begin(r, "login", "login_select", in, EmailPre(e))
             ELSE Finish(r, "login", in, EmailPre(e), ValidationFailed)
    /\ UNCHANGED <<users, watchlist, now, issued, regLog, client>>

\* lines 107-123
LoginSelect(r) ==
    /\ req[r].pc = "login_select"
    /\ LET rows == SelectByEmail(users, req[r].in.email)
       IN  IF rows = {}
           THEN Reply(r, Msg(401, "Invalid credentials"))
           ELSE \E user \in rows :
                  IF user.password = NULL
                  THEN req' = [req EXCEPT ![r].pc = "done", ![r].user = user,
                                          ![r].res = Msg(401, "Please sign in with Google")]
                  ELSE req' = [req EXCEPT ![r].pc = "login_compare", ![r].user = user]
    /\ UNCHANGED <<users, watchlist, now, issued, regLog, client>>

\* lines 126-147, with a message of its own for the failed comparison
LoginCompareLeaky(r) ==
    /\ req[r].pc = "login_compare"
    /\ LET user == req[r].user
           token == JwtSign(user.id, user.email, Absent, now)
       IN  IF ~BcryptCompare(req[r].in.password, user.password)
           THEN /\ Reply(r, Msg(401, "Wrong password"))
                /\ UNCHANGED issued
           ELSE /\ Reply(r, AuthOk(200, "Login successful", token, RegisterUserView(user)))
                /\ issued' = Keep(issued, token)
    /\ UNCHANGED <<users, watchlist, now, regLog, client>>

\* lines 126-147, with a stored hash that a successful login replaces
LoginCompareRehash(r) ==
    /\ req[r].pc = "login_compare"
    /\ LET user == req[r].user
           token == JwtSign(user.id, user.email, Absent, now)
       IN  IF ~BcryptCompare(req[r].in.password, user.password)
           THEN /\ Reply(r, Msg(401, "Invalid credentials"))
                /\ UNCHANGED <<issued, users>>
           ELSE /\ Reply(r, AuthOk(200, "Login successful", token, RegisterUserView(user)))
                /\ issued' = Keep(issued, token)
                /\ users' = {IF u.id = user.id
                             THEN [u EXCEPT !.password = "$2b$12$" \o req[r].in.password]
                             ELSE u : u \in users}
    /\ UNCHANGED <<watchlist, now, regLog, client>>

\* lines 126-147
LoginCompare(r) ==
    /\ req[r].pc = "login_compare"
    /\ LET user == req[r].user
           token == JwtSign(user.id, user.email, Absent, now)
       IN  IF ~BcryptCompare(req[r].in.password, user.password)
           THEN /\ Reply(r, Msg(401, "Invalid credentials"))
                /\ UNCHANGED issued
           ELSE /\ Reply(r, AuthOk(200, "Login successful", token, RegisterUserView(user)))
                /\ issued' = Keep(issued, token)
    /\ UNCHANGED <<users, watchlist, now, regLog, client>>

-----------------------------------------------------------------------------
(* POST /api/auth/google *)

GoogleUserView(u) ==
    [id |-> u.id, email |-> u.email, name |-> u.name, picture |-> u.picture]

\* SELECT * FROM users WHERE google_id = ? OR email = ?
SelectByGoogleOrEmail(us, gid, e) == {u \in us : u.google_id = gid \/ u.email = e}

\* the credential is one for which /google would insert a users row
MayCreate(c) ==
    /\ c.kind = "valid"
    /\ c.email # Absent
    /\ SelectByGoogleOrEmail(users, c.sub, c.email) = {}

GooglePre(c) ==
    [NoPre EXCEPT !.linkable =
        \E u \in SelectByGoogleOrEmail(users, c.sub, c.email) : u.google_id = NULL]

\* lines 23-28
StartGoogle(r) ==
    /\ req[r].op = "idle"
    /\ \E c \in Credentials :
         /\ \/ Cardinality(users) + Creating < MaxUsers
            \/ Creating = 0 /\ ~MayCreate(c)
         /\ IF c.kind = "none"
            THEN Finish(r, "google", [NoIn EXCEPT !.cred = c], NoPre,
                        Msg(400, "No credential provided"))
            ELSE Begin(r, "google", "g_verify", [NoIn EXCEPT !.cred = c], GooglePre(c))
    /\ UNCHANGED <<users, watchlist, now, issued, regLog, client>>

\* lines 31-48: verifyIdToken throws on a bad token, which the catch of lines
\* 103-106 answers
GoogleVerify(r) ==
    /\ req[r].pc = "g_verify"
    /\ LET c == req[r].in.cred
       IN  CASE c.kind = "invalid" -> Reply(r, Msg(500, "Server error"))
             [] c.kind = "nopayload" -> Reply(r, Msg(400, "Invalid token"))
             [] c.email = Absent -> Reply(r, Msg(400, "Email not provided by Google"))
             [] OTHER -> Goto(r, "g_select")
    /\ UNCHANGED <<users, watchlist, now, issued, regLog, client>>

GoogleReply(r, user) ==
    LET token == JwtSign(user.id, user.email, user.google_id, now)
    IN  /\ req' = [req EXCEPT ![r].pc = "done", ![r].user = user,
                              ![r].res = AuthOk(200, "Google login successful", token,
                                                GoogleUserView(user))]
        /\ issued' = Keep(issued, token)

\* lines 51-58 and 71-75, 86-102 when the user already has a google_id
GoogleSelect(r) ==
    /\ req[r].pc = "g_select"
    /\ LET c == req[r].in.cred
           rows == SelectByGoogleOrEmail(users, c.sub, c.email)
       IN  IF rows = {}
           THEN Goto(r, "g_insert") /\ UNCHANGED issued
           ELSE \E user \in rows :
                  IF user.google_id = NULL
                  THEN /\ req' = [req EXCEPT ![r].pc = "g_update", ![r].user = user]
                       /\ UNCHANGED issued
                  ELSE GoogleReply(r, user)
    /\ UNCHANGED <<users, watchlist, now, regLog, client>>

\* the INSERT without the google_id column
GoogleRowNoSub(us, c) ==
    [id |-> NextUserId(us), email |-> c.email, password |-> NULL, google_id |-> NULL,
     name |-> c.name, picture |-> c.picture]

\* INSERT INTO users (email, google_id, name, picture) VALUES (?, ?, ?, ?)
GoogleRow(us, c) ==
    [id |-> NextUserId(us), email |-> c.email, password |-> NULL, google_id |-> c.sub,
     name |-> c.name, picture |-> c.picture]

\* lines 60-63, and the catch when the INSERT is rejected
GoogleInsert(r) ==
    /\ req[r].pc = "g_insert"
    /\ IF EmailTaken(users, req[r].in.cred.email)
       THEN /\ Reply(r, Msg(500, "Server error"))
            /\ UNCHANGED users
       ELSE /\ users' = users \cup {GoogleRow(users, req[r].in.cred)}
            /\ req' = [req EXCEPT ![r].pc = "g_fetch",
                                  ![r].user = GoogleRow(users, req[r].in.cred)]
    /\ UNCHANGED <<watchlist, now, issued, regLog, client>>

\* lines 66-70 and 86-102
GoogleFetch(r) ==
    /\ req[r].pc = "g_fetch"
    /\ \E user \in SelectById(users, req[r].user.id) : GoogleReply(r, user)
    /\ UNCHANGED <<users, watchlist, now, regLog, client>>

\* an UPDATE that also clears the password: SET password = NULL, google_id = ?, ...
LinkGoogleResetPassword(us, id, c) ==
    {IF u.id = id
     THEN [u EXCEPT !.password = NULL, !.google_id = c.sub, !.name = c.name,
                    !.picture = c.picture]
     ELSE u : u \in us}

\* the UPDATE without its WHERE
LinkGoogleAll(us, id, c) ==
    {[u EXCEPT !.google_id = c.sub, !.name = c.name, !.picture = c.picture] : u \in us}

\* UPDATE users SET google_id = ?, name = ?, picture = ? WHERE id = ?
LinkGoogle(us, id, c) ==
    {IF u.id = id
     THEN [u EXCEPT !.google_id = c.sub, !.name = c.name, !.picture = c.picture]
     ELSE u : u \in us}

\* lines 75-83 and 86-102
GoogleUpdate(r) ==
    /\ req[r].pc = "g_update"
    /\ LET c == req[r].in.cred
           user == [req[r].user EXCEPT !.google_id = c.sub, !.name = OrNull(c.name),
                                       !.picture = OrNull(c.picture)]
       IN  /\ users' = LinkGoogle(users, req[r].user.id, c)
           /\ GoogleReply(r, user)
    /\ UNCHANGED <<watchlist, now, regLog, client>>

-----------------------------------------------------------------------------
(* /api/watchlist *)

\* the Authorization header of a request: none, a token of another key, or
\* the token a client holds
Bearers == {NoToken} \cup {ForgedToken(1)} \cup issued

\* authenticateToken without jwt.verify: only the presence of a token is checked
AuthFailureUnverified(tok) ==
    IF tok.key = "none" THEN Msg(401, "Access token required") ELSE NoRes

\* authenticateToken, lines 18-35: the response when it ends the request
AuthFailure(tok) ==
    IF tok.key = "none" THEN Msg(401, "Access token required")
    ELSE IF ~JwtVerify(tok, now) THEN Msg(403, "Invalid or expired token")
    ELSE NoRes

\* authenticateToken ends the request before the handler reads it
Rejected(r, op, tok) ==
    Finish(r, op, [NoIn EXCEPT !.auth = tok], NoPre, AuthFailure(tok))

\* the handler runs its own check of the request: `bad` answers a failed one
Handle(r, op, pc, in, valid, bad) ==
    LET mine == {i \in 1..Len(watchlist) : /\ watchlist[i].user_id = in.auth.userId
                                            /\ watchlist[i].symbol = in.symbol}
        pre == [NoPre EXCEPT !.hasEntry = mine # {},
                             !.wasFavorite = \E i \in mine : watchlist[i].is_favorite]
    IN  IF valid THEN Begin(r, op, pc, in, pre) ELSE Finish(r, op, in, pre, bad)

UserId(r) == req[r].in.auth.userId

Match(row, uid, symbol) == row.user_id = uid /\ row.symbol = symbol

\* SELECT * FROM watchlist WHERE user_id = ? AND symbol = ?
SelectEntry(wl, uid, symbol) == SelectSeq(wl, LAMBDA row : Match(row, uid, symbol))

\* the SELECT without its WHERE
SelectOfAll(wl, uid) == wl

\* SELECT * FROM watchlist WHERE user_id = ?
SelectOfUser(wl, uid) == SelectSeq(wl, LAMBDA row : row.user_id = uid)

\* ORDER BY added_at DESC alone
BeforeByDate(a, b) == a.added_at >= b.added_at

\* ORDER BY is_favorite DESC, added_at DESC
Before(a, b) ==
    \/ a.is_favorite /\ ~b.is_favorite
    \/ a.is_favorite = b.is_favorite /\ a.added_at >= b.added_at

IsOrdered(s) == \A i, j \in 1..Len(s) : i < j => Before(s[i], s[j])

Orderings(rows) ==
    {s \in [1..Len(rows) -> Range(rows)] :
        /\ \A i, j \in 1..Len(rows) : i # j => s[i] # s[j]
        /\ IsOrdered(s)}

\* rows.map(item => ({symbol, name, isFavorite, addedAt}))
ItemView(row) ==
    [symbol |-> row.symbol, name |-> row.name, isFavorite |-> row.is_favorite,
     addedAt |-> row.added_at]

MapView(s) == [i \in 1..Len(s) |-> ItemView(s[i])]

\* the results GET / can give for user uid
ListResults(wl, uid) == {MapView(s) : s \in Orderings(SelectOfUser(wl, uid))}

StartList(r) ==
    /\ req[r].op = "idle"
    /\ \E tok \in Bearers :
         IF AuthFailure(tok) # NoRes THEN Rejected(r, "list", tok)
         ELSE Begin(r, "list", "list_select", [NoIn EXCEPT !.auth = tok], NoPre)
    /\ UNCHANGED <<users, watchlist, now, issued, regLog, client>>

\* lines 40-54
ListSelect(r) ==
    /\ req[r].pc = "list_select"
    /\ \E l \in ListResults(watchlist, UserId(r)) :
         Reply(r, [NoRes EXCEPT !.status = 200, !.watchlist = l])
    /\ UNCHANGED <<users, watchlist, now, issued, regLog, client>>

\* lines 64-70: !symbol || !name
StartAdd(r, syms) ==
    /\ req[r].op = "idle"
    /\ \E tok \in Bearers :
         IF AuthFailure(tok) # NoRes THEN Rejected(r, "add", tok)
         ELSE \E s \in syms \cup {""}, n \in StockNames \cup {""} :
                Handle(r, "add", "add_check",
                       [NoIn EXCEPT !.auth = tok, !.symbol = s, !.name = n],
                       s # "" /\ n # "", Msg(400, "Symbol and name are required"))
    /\ UNCHANGED <<users, watchlist, now, issued, regLog, client>>

\* lines 73-81
AddCheck(r) ==
    /\ req[r].pc = "add_check"
    /\ IF Len(SelectEntry(watchlist, UserId(r), req[r].in.symbol)) > 0
       THEN Reply(r, Msg(400, "Stock already in watchlist"))
       ELSE Goto(r, "add_insert")
    /\ UNCHANGED <<users, watchlist, now, issued, regLog, client>>

\* watchlist with the plain index of DATABASE_UPGRADE.sql alone: no INSERT is rejected
EntryNeverTaken(wl, uid, symbol) == FALSE

\* watchlist has a uniqueness constraint on (user_id, symbol)
EntryTaken(wl, uid, symbol) == \E i \in 1..Len(wl) : Match(wl[i], uid, symbol)

\* the INSERT with TRUE for is_favorite
NewEntryFavorite(uid, symbol, name, t) ==
    [user_id |-> uid, symbol |-> symbol, name |-> name, is_favorite |-> TRUE,
     added_at |-> t]

\* INSERT INTO watchlist (user_id, symbol, name, is_favorite) VALUES (?, ?, ?, FALSE)
NewEntry(uid, symbol, name, t) ==
    [user_id |-> uid, symbol |-> symbol, name |-> name, is_favorite |-> FALSE,
     added_at |-> t]

\* lines 84-89, and the catch of lines 90-93 when the INSERT is rejected
AddInsert(r) ==
    /\ req[r].pc = "add_insert"
    /\ IF EntryTaken(watchlist, UserId(r), req[r].in.symbol)
       THEN /\ Reply(r, Msg(500, "Server error"))
            /\ UNCHANGED watchlist
       ELSE /\ watchlist' = Append(watchlist,
                     NewEntry(UserId(r), req[r].in.symbol, req[r].in.name, now))
            /\ Reply(r, Msg(201, "Stock added to watchlist"))
    /\ UNCHANGED <<users, now, issued, regLog, client>>

\* lines 101-106: typeof isFavorite !== 'boolean'
StartFavorite(r, syms) ==
    /\ req[r].op = "idle"
    /\ \E tok \in Bearers :
         IF AuthFailure(tok) # NoRes THEN Rejected(r, "favorite", tok)
         ELSE \E s \in syms, f \in FavValues :
                Handle(r, "favorite", "fav_update",
                       [NoIn EXCEPT !.auth = tok, !.symbol = s, !.fav = f],
                       TypeOf(f) = "boolean", Msg(400, "isFavorite must be a boolean"))
    /\ UNCHANGED <<users, watchlist, now, issued, regLog, client>>

\* an UPDATE that inverts the flag: SET is_favorite = NOT is_favorite
UpdateFavoriteInverted(wl, uid, symbol, f) ==
    [i \in 1..Len(wl) |->
        IF Match(wl[i], uid, symbol)
        THEN [wl[i] EXCEPT !.is_favorite = ~wl[i].is_favorite] ELSE wl[i]]

\* the UPDATE without user_id in its WHERE
UpdateFavoriteBySymbol(wl, uid, symbol, f) ==
    [i \in 1..Len(wl) |->
        IF wl[i].symbol = symbol THEN [wl[i] EXCEPT !.is_favorite = f] ELSE wl[i]]

\* UPDATE watchlist SET is_favorite = ? WHERE user_id = ? AND symbol = ?
UpdateFavorite(wl, uid, symbol, f) ==
    [i \in 1..Len(wl) |->
        IF Match(wl[i], uid, symbol) THEN [wl[i] EXCEPT !.is_favorite = f] ELSE wl[i]]

\* affectedRows of a connection without FOUND_ROWS: the rows the UPDATE changed
ChangedRows(wl, uid, symbol, f) ==
    Len(SelectSeq(wl, LAMBDA row : Match(row, uid, symbol) /\ row.is_favorite # f))

\* result.affectedRows: the pool of config/database.ts sets no flags, and the
\* driver's default flags include FOUND_ROWS, so it counts the rows matched
AffectedRows(wl, uid, symbol, f) == Len(SelectEntry(wl, uid, symbol))

\* lines 108-118 without the affectedRows check of lines 113-116
FavoriteUpdateUnchecked(r) ==
    /\ req[r].pc = "fav_update"
    /\ LET f == (req[r].in.fav = "true")
       IN  /\ watchlist' = UpdateFavorite(watchlist, UserId(r), req[r].in.symbol, f)
           /\ Reply(r, Msg(200, IF f THEN "Stock favorited successfully"
                                     ELSE "Stock unfavorited successfully"))
    /\ UNCHANGED <<users, now, issued, regLog, client>>

\* lines 108-118
FavoriteUpdate(r) ==
    /\ req[r].pc = "fav_update"
    /\ LET f == (req[r].in.fav = "true")
           uid == UserId(r)
           symbol == req[r].in.symbol
       IN  /\ watchlist' = UpdateFavorite(watchlist, uid, symbol, f)
           /\ IF AffectedRows(watchlist, uid, symbol, f) = 0
              THEN Reply(r, Msg(404, "Stock not found in watchlist"))
              ELSE Reply(r, Msg(200, IF f THEN "Stock favorited successfully"
                                     ELSE "Stock unfavorited successfully"))
    /\ UNCHANGED <<users, now, issued, regLog, client>>

StartRemove(r, syms) ==
    /\ req[r].op = "idle"
    /\ \E tok \in Bearers :
         IF AuthFailure(tok) # NoRes THEN Rejected(r, "remove", tok)
         ELSE \E s \in syms :
                Handle(r, "remove", "remove_delete",
                       [NoIn EXCEPT !.auth = tok, !.symbol = s], TRUE, NoRes)
    /\ UNCHANGED <<users, watchlist, now, issued, regLog, client>>

\* the DELETE without user_id in its WHERE
DeleteBySymbol(wl, uid, symbol) == SelectSeq(wl, LAMBDA row : row.symbol # symbol)

\* DELETE FROM watchlist WHERE user_id = ? AND symbol = ?
DeleteEntry(wl, uid, symbol) == SelectSeq(wl, LAMBDA row : ~Match(row, uid, symbol))

\* lines 128-136
RemoveDelete(r) ==
    /\ req[r].pc = "remove_delete"
    /\ watchlist' = DeleteEntry(watchlist, UserId(r), req[r].in.symbol)
    /\ Reply(r, Msg(200, "Stock removed from watchlist"))
    /\ UNCHANGED <<users, now, issued, regLog, client>>

-----------------------------------------------------------------------------
\* the client has read the response
Retire(r) ==
    /\ req[r].pc = "done"
    /\ req' = [req EXCEPT ![r] = Idle]
    /\ UNCHANGED <<users, watchlist, now, issued, regLog, client>>

\* a day passes
Tick ==
    /\ now < MaxTime
    /\ now' = now + 1
    /\ UNCHANGED <<users, watchlist, issued, regLog, req, client>>

\* the positions at which a handler awaits pool.query
StorePcs ==
    {"reg_check", "reg_insert", "reg_fetch", "login_select", "g_select", "g_insert",
     "g_fetch", "g_update", "list_select", "add_check", "add_insert", "fav_update",
     "remove_delete"}

\* a catch that passes the error's text on to the client
StoreFailsLeaky(r) ==
    /\ req[r].pc \in StorePcs
    /\ req' = [req EXCEPT ![r].pc = "done", ![r].pre.storeFailed = TRUE,
                          ![r].res = Msg(500, "ER_CON_COUNT_ERROR: Too many connections")]
    /\ UNCHANGED <<users, watchlist, now, issued, regLog, client>>

\* pool.query rejects: the statement has no effect and the catch of the handler
\* logs the error and answers 500
StoreFails(r) ==
    /\ req[r].pc \in StorePcs
    /\ req' = [req EXCEPT ![r].pc = "done", ![r].pre.storeFailed = TRUE,
                          ![r].res = Msg(500, "Server error")]
    /\ UNCHANGED <<users, watchlist, now, issued, regLog, client>>

\* a day passes, up to the day after a token of day 0 or 1 has expired
Day ==
    /\ now < MaxDays
    /\ now' = now + 1
    /\ UNCHANGED <<users, watchlist, issued, regLog, req, client>>

AuthStart(r) ==
    \/ StartRegister(r)
    \/ StartLogin(r)
    \/ StartGoogle(r)

AuthStep(r) ==
    \/ RegisterCheck(r)
    \/ RegisterHash(r)
    \/ RegisterInsert(r)
    \/ RegisterFetch(r)
    \/ LoginSelect(r)
    \/ LoginCompare(r)
    \/ GoogleVerify(r)
    \/ GoogleSelect(r)
    \/ GoogleInsert(r)
    \/ GoogleFetch(r)
    \/ GoogleUpdate(r)
    \/ Retire(r)

WatchStart(r, syms) ==
    \/ StartList(r)
    \/ StartAdd(r, syms)
    \/ StartFavorite(r, syms)
    \/ StartRemove(r, syms)

WatchStep(r) ==
    \/ ListSelect(r)
    \/ AddCheck(r)
    \/ AddInsert(r)
    \/ FavoriteUpdate(r)
    \/ RemoveDelete(r)
    \/ Retire(r)

NoneInSlot == \A q \in Slots : req[q].op = "idle"

\* the /api/auth routes, requests interleaving at their suspension points
AuthNext ==
    \/ \E r \in Slots : AuthStart(r)
    \/ \E r \in Slots : AuthStep(r)

AuthSpec == Init /\ [][AuthNext]_vars

\* the /api/auth routes, one request at a time
AuthSeqNext ==
    \/ NoneInSlot /\ AuthStart(1)
    \/ AuthStep(1)

AuthSeqSpec == Init /\ [][AuthSeqNext]_vars

\* two users have registered and hold their tokens
TwoUsers ==
    /\ users = {[NoUser EXCEPT !.id = 1, !.email = "ann@x.com",
                               !.password = BcryptHash("secret1")],
                [NoUser EXCEPT !.id = 2, !.email = "jdoe@gmail.com",
                               !.password = BcryptHash("secret1")]}
    /\ watchlist = <<>>
    /\ now = 0
    /\ issued = {JwtSign(u.id, u.email, Absent, 0) : u \in users}
    /\ regLog = {[email |-> "ann@x.com", password |-> "secret1", id |-> 1],
                 [email |-> "j.doe@gmail.com", password |-> "secret1", id |-> 2]}
    /\ req = [r \in Slots |-> Idle]

WatchInit == TwoUsers /\ client = NoClient

\* the /api/watchlist routes, requests interleaving at their suspension points
WatchNext ==
    \/ \E r \in Slots : WatchStart(r, RaceSymbols)
    \/ \E r \in Slots : WatchStep(r)

WatchSpec == WatchInit /\ [][WatchNext]_vars

\* the /api/watchlist routes, one request at a time
WatchSeqNext ==
    \/ NoneInSlot /\ WatchStart(1, Symbols)
    \/ WatchStep(1)
    \/ Tick

WatchSeqSpec == WatchInit /\ [][WatchSeqNext]_vars

\* the two users log in during the first days and use their watchlists over
\* MaxDays days, one request at a time
TokenNext ==
    \/ NoneInSlot /\ now <= MaxTime /\ StartLogin(1)
    \/ LoginSelect(1)
    \/ LoginCompare(1)
    \/ NoneInSlot /\ WatchStart(1, RaceSymbols)
    \/ WatchStep(1)
    \/ NoneInSlot /\ Day

TokenSpec == WatchInit /\ [][TokenNext]_vars

\* all the routes of the service from an empty store, one request at a time
ServiceSeqNext ==
    \/ NoneInSlot /\ AuthStart(1)
    \/ AuthStep(1)
    \/ NoneInSlot /\ WatchStart(1, RaceSymbols)
    \/ WatchStep(1)

ServiceSeqSpec == Init /\ [][ServiceSeqNext]_vars

\* all the routes from an empty store, one request at a time, with a store
\* that may fail any query
FailNext ==
    \/ NoneInSlot /\ AuthStart(1)
    \/ AuthStep(1)
    \/ NoneInSlot /\ WatchStart(1, RaceSymbols)
    \/ WatchStep(1)
    \/ StoreFails(1)

FailSpec == Init /\ [][FailNext]_vars

-----------------------------------------------------------------------------
(* The pages of the browser client *)

Server == <<users, watchlist, now, issued, regLog, req>>

\* localStorage.removeItem for each key of ks
RemoveItems(storage, ks) == [k \in StorageKeys |-> IF k \in ks THEN Absent ELSE storage[k]]

\* savedData && savedIsRealData === 'true'
CacheHit(storage, dataKey, realKey) == storage[dataKey] # Absent /\ storage[realKey] = "true"

\* the page on screen unmounts: its component state goes, and what it awaits
\* goes on without it
Unmount(c) ==
    [c EXCEPT !.mounted = FALSE, !.userId = NULL, !.watchlistStocks = <<>>,
              !.fetch = "none", !.rerender = FALSE, !.stocks = <<>>,
              !.isRealData = FALSE,
              !.refresh = IF c.refresh.pc = "quotes"
                          THEN [c.refresh EXCEPT !.live = FALSE]
                          ELSE NoRefresh]

\* Login.handleSubmit when the response is ok: data.token is a token the
\* server signed
LoginSubmit ==
    /\ client.page = "login"
    /\ \E tok \in issued :
         client' = [Unmount(client) EXCEPT
                      !.storage = RemoveItems(client.storage, SharedKeys),
                      !.token = tok, !.page = "dashboard"]
    /\ UNCHANGED Server

\* a link of the Navbar, in a session, once the page on screen has loaded
Navigate(p) ==
    /\ client.token # NoToken
    /\ client.loading = {}
    /\ client.page \notin {"login", p}
    /\ client' = [Unmount(client) EXCEPT !.page = p]
    /\ UNCHANGED Server

\* Navbar.handleLogout
Logout ==
    /\ client.page # "login"
    /\ client' = [Unmount(client) EXCEPT
                    !.storage = RemoveItems(client.storage, SharedKeys),
                    !.token = NoToken, !.page = "login", !.mounted = TRUE]
    /\ UNCHANGED Server

\* the mount effect of Dashboard, Crypto and News: load the cache, or start
\* the fetch unless the API key it needs is not configured
MountCached(p, dataKey, realKey, keys) ==
    /\ client.page = p
    /\ ~client.mounted
    /\ client' = [client EXCEPT
                    !.mounted = TRUE,
                    !.loading = IF \/ CacheHit(client.storage, dataKey, realKey)
                                   \/ ~(keys \subseteq client.env)
                                THEN @ ELSE @ \cup {p}]
    /\ UNCHANGED Server

DashboardMount ==
    MountCached("dashboard", "dashboard-data", "dashboard-is-real-data",
                {"VITE_FINNHUB_API_KEY"})

CryptoMount == MountCached("crypto", "crypto-data", "crypto-is-real-data", {})

NewsMount == MountCached("news", "news-data", "news-is-real-data", {"VITE_NEWS_API_KEY"})

\* Dashboard.fetchStockData after its awaits: a quote that fails is left out
\* and the list is stored whatever its length
DashboardFetched ==
    /\ "dashboard" \in client.loading
    /\ client' = [client EXCEPT !.loading = @ \ {"dashboard"},
                                !.storage["dashboard-data"] = "[SPY]",
                                !.storage["dashboard-is-real-data"] = "true"]
    /\ UNCHANGED Server

\* Crypto.fetchCryptoData after its await: the response is stored, or the
\* catch leaves the storage alone
CryptoFetched ==
    /\ "crypto" \in client.loading
    /\ \/ client' = [client EXCEPT !.loading = @ \ {"crypto"},
                                   !.storage["crypto-data"] = "[BTC]",
                                   !.storage["crypto-is-real-data"] = "true"]
       \/ client' = [client EXCEPT !.loading = @ \ {"crypto"}]
    /\ UNCHANGED Server

\* News.fetchNews after its awaits
NewsFetched ==
    /\ "news" \in client.loading
    /\ \/ client' = [client EXCEPT !.loading = @ \ {"news"},
                                   !.storage["news-data"] = "[article]",
                                   !.storage["news-is-real-data"] = "true"]
       \/ client' = [client EXCEPT !.loading = @ \ {"news"}]
    /\ UNCHANGED Server

\* getUserIdFromToken: the userId claim of the stored token, unverified
GetUserIdFromToken(tok) == IF tok = NoToken THEN NULL ELSE ToString(tok.userId)

\* the mount of Watchlist: the effect of lines 45-49 sets userId and calls
\* fetchUserWatchlist, which runs to its await; the effect of lines 85-91 sees
\* the userId of the first render, null
WatchlistMount ==
    /\ client.page = "watchlists"
    /\ ~client.mounted
    /\ LET id == GetUserIdFromToken(client.token)
       IN  client' = [client EXCEPT
                        !.mounted = TRUE, !.userId = id, !.rerender = (id # NULL),
                        !.fetch = IF client.token = NoToken THEN "none" ELSE "pending",
                        !.watchlistStocks = <<>>, !.stocks = <<>>,
                        !.isRealData = FALSE]
    /\ UNCHANGED Server

\* the response of GET /api/watchlist arrives: setWatchlistStocks
WatchlistFetched ==
    /\ client.page = "watchlists"
    /\ client.fetch = "pending"
    /\ IF AuthFailure(client.token) = NoRes
       THEN \E l \in ListResults(watchlist, client.token.userId) :
              client' = [client EXCEPT !.fetch = "done",
                                       !.watchlistStocks = [i \in 1..Len(l) |-> l[i].symbol]]
       ELSE client' = [client EXCEPT !.fetch = "done", !.watchlistStocks = <<>>]
    /\ UNCHANGED Server

\* the render after setUserId runs the effect of lines 85-113 again: load the
\* user's cache, or call fetchStockData, which holds the watchlistStocks and
\* the userId of this render
WatchlistEffect ==
    /\ client.page = "watchlists"
    /\ client.rerender
    /\ client.refresh.pc # "quotes"
    /\ LET dataKey == WatchlistDataKey(client.userId)
           realKey == WatchlistRealKey(client.userId)
       IN  client' =
             IF CacheHit(client.storage, dataKey, realKey)
             THEN [client EXCEPT !.rerender = FALSE,
                                 !.stocks = Parse(client.storage[dataKey]),
                                 !.isRealData = TRUE]
             ELSE IF "VITE_FINNHUB_API_KEY" \notin client.env
             THEN [client EXCEPT !.rerender = FALSE, !.stocks = <<>>,
                                 !.refresh = [NoRefresh EXCEPT !.pc = "failed"]]
             ELSE [client EXCEPT !.rerender = FALSE,
                                 !.refresh = [pc |-> "quotes",
                                              symbols |-> client.watchlistStocks,
                                              userId |-> client.userId,
                                              live |-> TRUE]]
    /\ UNCHANGED Server

\* the sublists of l
RECURSIVE SubLists(_)
SubLists(l) ==
    IF l = <<>> THEN {<<>>}
    ELSE LET rest == SubLists(Tail(l))
         IN  rest \cup {<<l[1]>> \o t : t \in rest}

\* fetchStockData after Promise.all: the quotes that came back are shown, if
\* the component is still there, and stored under the keys of its userId
QuotesFetched ==
    /\ client.refresh.pc = "quotes"
    /\ \E allResults \in SubLists(client.refresh.symbols) :
         LET run == client.refresh
             shown == IF run.live
                      THEN [client EXCEPT !.stocks = allResults, !.isRealData = TRUE]
                      ELSE client
             saved == IF run.userId = NULL THEN shown.storage
                      ELSE [shown.storage EXCEPT
                              ![WatchlistDataKey(run.userId)] = Stringify(allResults),
                              ![WatchlistRealKey(run.userId)] = "true"]
         IN  client' = [shown EXCEPT !.storage = saved,
                                     !.refresh = IF run.live
                                                 THEN [run EXCEPT !.pc = "stored"]
                                                 ELSE NoRefresh]
    /\ UNCHANGED Server

\* no Watchlist page is on screen and none of its refreshes is under way
Away == client.page = "login" /\ client.refresh.pc # "quotes"

\* a build of the client with some of its API keys, and the two users
ClientInit ==
    /\ TwoUsers
    /\ client \in {[NoClient EXCEPT !.env = e] : e \in SUBSET EnvKeys}

\* one browser over the running service; watchlists change between sessions
ClientNext ==
    \/ LoginSubmit
    \/ \E p \in {"dashboard", "watchlists", "crypto", "news"} : Navigate(p)
    \/ Logout
    \/ DashboardMount
    \/ DashboardFetched
    \/ CryptoMount
    \/ CryptoFetched
    \/ NewsMount
    \/ NewsFetched
    \/ WatchlistMount
    \/ WatchlistFetched
    \/ WatchlistEffect
    \/ QuotesFetched
    \/ Away /\ NoneInSlot /\ StartAdd(1, RaceSymbols)
    \/ Away /\ AddCheck(1)
    \/ Away /\ AddInsert(1)
    \/ Away /\ Retire(1)

ClientSpec == ClientInit /\ [][ClientNext]_vars

-----------------------------------------------------------------------------
(* Properties *)

Done(r, op) == req[r].op = op /\ req[r].pc = "done"

\* the request in slot r is answered in this step
Answered(r, op) == req'[r].op = op /\ req[r].pc # "done" /\ req'[r].pc = "done"

\* the body passed the validation chain of /register
ValidRegister(r) == IsEmail(req[r].in.rawEmail) /\ IsLengthMin(req[r].in.password)

\* the body passed the validation chain of /login
ValidLogin(r) == IsEmail(req[r].in.rawEmail) /\ req[r].in.password # Absent

\* C1: for a valid email and a password of at least 6 characters, Register
\* answers 201 when its look-up of the email finds no user, returning the id
\* of the row it created, and a later Login with the same email and password
\* answers 200 with a token whose userId is the id Register returned.
C1_RegisterThenLogin ==
    /\ \A r \in Slots :
         Done(r, "register") /\ ValidRegister(r) /\ req[r].pre.emailFree =>
           /\ req[r].res.status = 201
           /\ req[r].res.token.userId = req[r].res.user.id
           /\ \E u \in users : /\ u.id = req[r].res.user.id
                               /\ u.email = req[r].res.user.email
           /\ [email |-> req[r].in.rawEmail, password |-> req[r].in.password,
               id |-> req[r].res.user.id] \in regLog
    /\ \A r \in Slots : \A g \in regLog :
         /\ Done(r, "login")
         /\ req[r].in.rawEmail = g.email
         /\ req[r].in.password = g.password
         => /\ req[r].res.status = 200
            /\ req[r].res.token.key = "server"
            /\ req[r].res.token.userId = g.id

C1_Witness ==
    \E r \in Slots : \E g \in regLog :
      /\ Done(r, "login")
      /\ req[r].in.rawEmail = g.email
      /\ req[r].in.password = g.password
      /\ req[r].res.status = 200
      /\ req[r].res.token.userId = g.id

\* C2: Register with an email that a stored user already has, password-based
\* or OAuth-only, with any password the validation accepts, answers 400 'User
\* already exists with this email' and inserts no row.
C2_RegisterTakenEmailConflicts ==
    \A r \in Slots :
      Done(r, "register") /\ ValidRegister(r) /\ req[r].pre.emailStored =>
        /\ req[r].res = Msg(400, "User already exists with this email")
        /\ req[r].user = NoUser

\* C3: Login with the email of a password account and a wrong password gets the
\* same response as Login with an email no user has: 401 and one generic message.
WrongPassword(r) ==
    /\ Done(r, "login")
    /\ req[r].user # NoUser
    /\ req[r].user.password # NULL
    /\ ~(req[r].user.password = BcryptHash(req[r].in.password))

UnknownEmail(r) ==
    /\ Done(r, "login")
    /\ ValidLogin(r)
    /\ req[r].user = NoUser

C4_OAuthOnlyLogin ==
    \A r \in Slots :
      Done(r, "login") /\ ValidLogin(r) /\ req[r].pre.oauthOnly =>
        /\ req[r].res = Msg(401, "Please sign in with Google")
        /\ req[r].res.token = NoToken

\* the caller's rows for the symbol of its request
Mine(wl, r) ==
    {i \in 1..Len(wl) : /\ wl[i].user_id = req[r].in.auth.userId
                        /\ wl[i].symbol = req[r].in.symbol}

\* every result List() can give user uid has exactly one item for the symbol
ListsOnce(wl, uid, symbol) ==
    /\ ListResults(wl, uid) # {}
    /\ \A l \in ListResults(wl, uid) :
         Cardinality({i \in 1..Len(l) : l[i].symbol = symbol}) = 1

\* C5: with requests served one at a time, Add of a non-empty symbol and name
\* that the caller's watchlist lacks answers 201 and List() then has exactly
\* one entry for the symbol, with isFavorite false; Add of a symbol the
\* caller's watchlist has answers 400 'Stock already in watchlist' and List()
\* still has exactly one entry for it.
C5_AddThenList ==
    [][\A r \in Slots :
         Answered(r, "add") /\ req[r].pc \in {"add_check", "add_insert"} =>
           LET uid == req[r].in.auth.userId
               symbol == req[r].in.symbol
           IN  IF ~req[r].pre.hasEntry
               THEN /\ req'[r].res = Msg(201, "Stock added to watchlist")
                    /\ ListsOnce(watchlist', uid, symbol)
                    /\ \A l \in ListResults(watchlist', uid) : \A i \in 1..Len(l) :
                         l[i].symbol = symbol => l[i].isFavorite = FALSE
               ELSE /\ req'[r].res = Msg(400, "Stock already in watchlist")
                    /\ ListsOnce(watchlist', uid, symbol)]_vars

C5_Witness ==
    \E r \in Slots :
      /\ Done(r, "add")
      /\ req[r].pre.hasEntry
      /\ req[r].res = Msg(400, "Stock already in watchlist")
      /\ ListsOnce(watchlist, req[r].in.auth.userId, req[r].in.symbol)

\* C6: ToggleFavorite with a boolean, when the caller has no entry for the
\* symbol, answers 404 and leaves the watchlist table as it was.
C6_FavoriteNotFound ==
    [][\A r \in Slots :
         Answered(r, "favorite") /\ req[r].pc = "fav_update" /\ Mine(watchlist, r) = {} =>
           /\ req'[r].res.status = 404
           /\ watchlist' = watchlist]_vars

C6_Witness ==
    \E r \in Slots :
      /\ Done(r, "favorite")
      /\ TypeOf(req[r].in.fav) = "boolean"
      /\ req[r].res.status = 404
      /\ Mine(watchlist, r) = {}
      /\ Len(watchlist) > 0

\* C7: ToggleFavorite(symbol, b) on an entry the caller has answers 200 and
\* leaves the entry's flag equal to b; when the flag already equals b, as after
\* a first call with the same b, it answers 200 again and the table is as the
\* first call left it.
C7_FavoriteIdempotent ==
    [][\A r \in Slots :
         Answered(r, "favorite") /\ req[r].pc = "fav_update" /\ Mine(watchlist, r) # {} =>
           LET b == (req[r].in.fav = "true")
           IN  /\ req'[r].res.status = 200
               /\ Len(watchlist') = Len(watchlist)
               /\ \A i \in Mine(watchlist, r) : watchlist'[i].is_favorite = b
               /\ (\A i \in Mine(watchlist, r) : watchlist[i].is_favorite = b)
                    => watchlist' = watchlist]_vars

C7_Witness ==
    \E r \in Slots :
      /\ Done(r, "favorite")
      /\ req[r].pre.hasEntry
      /\ req[r].pre.wasFavorite = (req[r].in.fav = "true")
      /\ req[r].res.status = 200
      /\ \A i \in Mine(watchlist, r) : watchlist[i].is_favorite = req[r].pre.wasFavorite

\* the rows of wl that are not the row of user uid for the symbol, in order
Rest(wl, uid, symbol) ==
    SelectSeq(wl, LAMBDA row : row.user_id # uid \/ row.symbol # symbol)

\* C8: Remove(symbol) answers 200; it deletes the caller's row for the symbol,
\* which is one row, and no other row, and when the caller has no such row the
\* table is as it was.
C8_RemoveFrame ==
    [][\A r \in Slots :
         Answered(r, "remove") /\ req[r].pc = "remove_delete" =>
           /\ req'[r].res.status = 200
           /\ Cardinality(Mine(watchlist, r)) <= 1
           /\ watchlist' = Rest(watchlist, req[r].in.auth.userId, req[r].in.symbol)
           /\ Len(watchlist') = Len(watchlist) - Cardinality(Mine(watchlist, r))
           /\ Mine(watchlist, r) = {} => watchlist' = watchlist]_vars

C8_Witness ==
    \E r \in Slots :
      /\ Done(r, "remove")
      /\ req[r].pre.hasEntry
      /\ req[r].res.status = 200
      /\ Mine(watchlist, r) = {}
      /\ \E i, j \in 1..Len(watchlist) :
           /\ watchlist[i].symbol = req[r].in.symbol
           /\ watchlist[j].user_id = req[r].in.auth.userId

\* C9: List() answers the caller's entries, every favorite before every
\* non-favorite and, among entries of the same flag, by added-at descending.
C9_ListOrder ==
    [][\A r \in Slots :
         Answered(r, "list") /\ req[r].pc = "list_select" =>
           LET l == req'[r].res.watchlist
               mine == {i \in 1..Len(watchlist) :
                          watchlist[i].user_id = req[r].in.auth.userId}
           IN  /\ req'[r].res.status = 200
               /\ Len(l) = Cardinality(mine)
               /\ \A i \in mine : \E j \in 1..Len(l) :
                    l[j] = [symbol |-> watchlist[i].symbol, name |-> watchlist[i].name,
                            isFavorite |-> watchlist[i].is_favorite,
                            addedAt |-> watchlist[i].added_at]
               /\ \A i, j \in 1..Len(l) :
                    i < j => /\ l[i].isFavorite \/ ~l[j].isFavorite
                             /\ l[i].isFavorite = l[j].isFavorite
                                  => l[i].addedAt >= l[j].addedAt]_vars

\* A (not favorite, added first) and B (favorite, added second) come as [B, A]
C9_Witness ==
    \E r \in Slots :
      /\ Done(r, "list")
      /\ req[r].res.status = 200
      /\ Len(req[r].res.watchlist) = 2
      /\ req[r].res.watchlist[1].isFavorite
      /\ ~req[r].res.watchlist[2].isFavorite
      /\ req[r].res.watchlist[1].addedAt > req[r].res.watchlist[2].addedAt

\* C10: two Add requests of one user for one symbol that the watchlist lacks,
\* the second arriving while the first is in flight, end with exactly one
\* stored row, one 201 and one 400 'Stock already in watchlist'.
C10_ConcurrentAdd ==
    \A r1, r2 \in Slots :
      /\ r1 # r2
      /\ Done(r1, "add") /\ Done(r2, "add")
      /\ r1 \in req[r2].pre.during
      /\ req[r1].in.auth = req[r2].in.auth
      /\ req[r1].in.symbol = req[r2].in.symbol
      /\ ~req[r1].pre.hasEntry /\ ~req[r2].pre.hasEntry
      => /\ Cardinality(Mine(watchlist, r1)) = 1
         /\ {req[r1].res, req[r2].res} = {Msg(201, "Stock added to watchlist"),
                                          Msg(400, "Stock already in watchlist")}


\* C11: two Register requests for one email that no user has, the second
\* arriving while the first is in flight, end with exactly one stored row for
\* the email, one 201 and, for the other, the 400 'User already exists with
\* this email' of the pre-check.
C11_ConcurrentRegister ==
    \A r1, r2 \in Slots :
      /\ r1 # r2
      /\ Done(r1, "register") /\ Done(r2, "register")
      /\ ValidRegister(r1) /\ ValidRegister(r2)
      /\ r1 \in req[r2].pre.during
      /\ req[r1].in.email = req[r2].in.email
      /\ req[r1].pre.emailFree /\ req[r2].pre.emailFree
      => /\ Cardinality(SelectByEmail(users, req[r1].in.email)) = 1
         /\ {req[r1].res.status, req[r2].res.status} = {201, 400}
         /\ \E r \in {r1, r2} :
              req[r].res = Msg(400, "User already exists with this email")


\* the rows of the users other than uid, in order
OthersRows(wl, uid) == SelectSeq(wl, LAMBDA row : row.user_id # uid)

\* C12: a step of a List, Add, ToggleFavorite or Remove request that carries
\* the token of user A leaves every row of every other user as it was, whatever
\* symbol or flag the request names, and the result of List has A's rows and
\* no others.
C12_Isolation ==
    [][\A r \in Slots :
         /\ req'[r] # req[r]
         /\ req'[r].op \in {"list", "add", "favorite", "remove"}
         => LET uid == req'[r].in.auth.userId
                mine == {i \in 1..Len(watchlist) : watchlist[i].user_id = uid}
            IN  /\ OthersRows(watchlist', uid) = OthersRows(watchlist, uid)
                /\ req[r].pc = "list_select" =>
                     LET l == req'[r].res.watchlist
                     IN  /\ Len(l) = Cardinality(mine)
                         /\ \A j \in 1..Len(l) : \E i \in mine :
                              /\ l[j].symbol = watchlist[i].symbol
                              /\ l[j].isFavorite = watchlist[i].is_favorite
                              /\ l[j].addedAt = watchlist[i].added_at]_vars

\* user A has favorited a symbol that user B holds too, not as a favorite
C12_Witness ==
    \E r \in Slots :
      /\ Done(r, "favorite")
      /\ req[r].in.fav = "true"
      /\ req[r].res.status = 200
      /\ \E i, j \in 1..Len(watchlist) :
           /\ watchlist[i].user_id = req[r].in.auth.userId
           /\ watchlist[i].symbol = req[r].in.symbol
           /\ watchlist[i].is_favorite
           /\ watchlist[j].user_id # req[r].in.auth.userId
           /\ watchlist[j].symbol = req[r].in.symbol
           /\ ~watchlist[j].is_favorite


\* C13: a watchlist request without a token is answered 401 and one whose
\* token fails verification 403; either is answered by authenticateToken,
\* before any step of the handler, and the watchlist table is as it was.
\* A request that a handler step serves carries a token of the server's key.
C13_AuthBeforeService ==
    [][\A r \in Slots :
         /\ (/\ req[r].op = "idle"
             /\ req'[r].op \in {"list", "add", "favorite", "remove"}
             /\ req'[r].in.auth.key = "none")
            => /\ req'[r].pc = "done"
               /\ req'[r].res.status = 401
               /\ watchlist' = watchlist
         /\ (/\ req[r].op = "idle"
             /\ req'[r].op \in {"list", "add", "favorite", "remove"}
             /\ req'[r].in.auth.key # "none"
             /\ ~(req'[r].in.auth.key = "server"
                  /\ now < req'[r].in.auth.iat + TokenLifetimeDays))
            => /\ req'[r].pc = "done"
               /\ req'[r].res.status = 403
               /\ watchlist' = watchlist
         /\ req[r].pc \in {"list_select", "add_check", "add_insert", "fav_update",
                           "remove_delete"}
            => req[r].in.auth.key = "server"]_vars

\* a request with a token of another key was answered 403 after the caller it
\* names had added a row, and the row is still stored
C13_Witness ==
    \E r \in Slots :
      /\ req[r].op \in {"add", "favorite", "remove"}
      /\ req[r].in.auth.key = "other"
      /\ req[r].res = Msg(403, "Invalid or expired token")
      /\ \E i \in 1..Len(watchlist) : watchlist[i].user_id = req[r].in.auth.userId

\* C14: every stored user has a password hash or an external identity id.
C14_HasCredential ==
    \A u \in users : u.password # NULL \/ u.google_id # NULL

\* a password-only user and an OAuth-only user are stored
C14_Witness ==
    \E u, v \in users :
      /\ u.password # NULL /\ u.google_id = NULL
      /\ v.password = NULL /\ v.google_id # NULL


\* C15: no two stored users have the same email, in every interleaving of
\* Register and LoginWithExternalIdentity requests.
C15_EmailUnique ==
    \A u, v \in users : u.email = v.email => u = v

\* a Register and an OAuth login raced for one unseen email: both look-ups
\* found no user, one INSERT was accepted and the other rejected
C15_Witness ==
    \E r1, r2 \in Slots :
      /\ Done(r1, "register") /\ Done(r2, "google")
      /\ req[r1].in.email = req[r2].in.cred.email
      /\ {req[r1].res.status, req[r2].res.status} \in {{201, 500}, {200, 500}}
      /\ {req[r1].res.message, req[r2].res.message} \cap
           {"User already exists with this email"} = {}
      /\ Cardinality(SelectByEmail(users, req[r1].in.email)) = 1


\* C16: a (user id, symbol) pair appears at most once in the watchlist table,
\* in every interleaving of Add, ToggleFavorite and Remove requests.
C16_EntryUnique ==
    \A i, j \in 1..Len(watchlist) :
      Match(watchlist[i], watchlist[j].user_id, watchlist[j].symbol) => i = j

\* two Add requests of one user for one symbol raced: both checks found no
\* row, one INSERT was accepted and the other rejected
C16_Witness ==
    \E r1, r2 \in Slots :
      /\ r1 # r2
      /\ Done(r1, "add") /\ Done(r2, "add")
      /\ req[r1].in.auth.userId = req[r2].in.auth.userId
      /\ req[r1].in.symbol = req[r2].in.symbol
      /\ req[r1].res.status = 201
      /\ req[r2].res.status = 500
      /\ Cardinality(Mine(watchlist, r1)) = 1


\* C17: LoginWithExternalIdentity answers 400 when the verification of the
\* identity token fails or the verified payload has no email; it issues no
\* token and creates or changes no user.
C17_GoogleBadRequest ==
    \A r \in Slots :
      /\ Done(r, "google")
      /\ \/ req[r].in.cred.kind \in {"invalid", "nopayload"}
         \/ req[r].in.cred.kind = "valid" /\ req[r].in.cred.email = Absent
      => /\ req[r].res.status = 400
         /\ req[r].res.token = NoToken
         /\ req[r].user = NoUser


\* the users the credential of request r matches, by external id or by email
Matched(r) ==
    {u \in users : \/ u.google_id = req[r].in.cred.sub
                   \/ u.email = req[r].in.cred.email}

\* C18: with requests served one at a time, a LoginWithExternalIdentity that
\* matches a user without external id sets that user's external id, name and
\* avatar to those of the credential and leaves its id, email and password
\* hash and every other user as they were; when the matched user has an
\* external id already, no user is changed.
C18_AccountLinking ==
    [][\A r \in Slots :
         Answered(r, "google") /\ req'[r].res.status = 200 /\ Matched(r) # {} =>
           \E m \in Matched(r) :
             /\ req'[r].res.user.id = m.id
             /\ IF m.google_id = NULL
                THEN users' = (users \ {m}) \cup
                                {[id |-> m.id, email |-> m.email, password |-> m.password,
                                  google_id |-> req[r].in.cred.sub,
                                  name |-> req[r].in.cred.name,
                                  picture |-> req[r].in.cred.picture]}
                ELSE users' = users]_vars

\* a password account was linked by this request while another user is stored
C18_Witness ==
    \E r \in Slots :
      /\ Done(r, "google")
      /\ req[r].pre.linkable
      /\ req[r].res.status = 200
      /\ \E u, v \in users :
           /\ u.id = req[r].res.user.id
           /\ u.password # NULL
           /\ u.google_id = req[r].in.cred.sub
           /\ u.name = req[r].in.cred.name
           /\ v.id # u.id
           /\ v.google_id = NULL


\* C19: in every step of Register, Login and LoginWithExternalIdentity every
\* stored user stays stored, a password hash that is set stays as it is, an
\* external identity id that is set stays set, and a user without a
\* password hash stays without one.
C19_CredentialsAdditive ==
    [][\A u \in users : \E v \in users' :
         /\ v.id = u.id
         /\ \A w \in users' : w.id = u.id => w = v
         /\ v.password = u.password
         /\ u.google_id # NULL => v.google_id # NULL]_vars

\* a password account has gained an external identity id and kept its hash,
\* next to an OAuth-only account
C19_Witness ==
    \E u, v \in users :
      /\ u.password = BcryptHash("secret1")
      /\ u.google_id # NULL
      /\ v.password = NULL
      /\ v.google_id # NULL


\* C20: a watchlist request that carries a token the server signed on day t
\* passes authenticateToken while fewer than 7 days have passed since t and is
\* answered 403 'Invalid or expired token', and nothing else, from day t + 7
\* on; a token signed with another key is answered so on any day.
C20_TokenLifetime ==
    [][\A r \in Slots :
         req[r].op = "idle" /\ req'[r].op \in {"list", "add", "favorite", "remove"} =>
           LET tok == req'[r].in.auth
           IN  /\ tok.key = "server" /\ now - tok.iat < 7
                  => req'[r].res.status \notin {401, 403}
               /\ tok.key = "server" /\ now - tok.iat >= 7
                  => /\ req'[r].pc = "done"
                     /\ req'[r].res = Msg(403, "Invalid or expired token")
               /\ tok.key = "other"
                  => /\ req'[r].pc = "done"
                     /\ req'[r].res = Msg(403, "Invalid or expired token")]_vars

\* the token of a Login on day 1 is refused on day 8 while rows of its user
\* are stored
C20_Witness ==
    \E r \in Slots :
      /\ req[r].op \in {"list", "add", "favorite", "remove"}
      /\ req[r].pc = "done"
      /\ req[r].in.auth.key = "server"
      /\ req[r].in.auth.iat = 1
      /\ now = req[r].in.auth.iat + 7
      /\ req[r].res = Msg(403, "Invalid or expired token")
      /\ \E i \in 1..Len(watchlist) :
           /\ watchlist[i].user_id = req[r].in.auth.userId
           /\ watchlist[i].added_at = now - 1


\* C21: List() of a stored user that has no watchlist row, as a user just
\* created by Register or by a first LoginWithExternalIdentity has none, is
\* answered 200 with an empty watchlist, whatever rows other users hold.
C21_NewUserEmptyList ==
    [][\A r \in Slots :
         /\ Answered(r, "list")
         /\ req[r].pc = "list_select"
         /\ \E u \in users : u.id = req[r].in.auth.userId
         /\ \A i \in 1..Len(watchlist) : watchlist[i].user_id # req[r].in.auth.userId
         => /\ req'[r].res.status = 200
            /\ req'[r].res.watchlist = <<>>]_vars

\* a user created by LoginWithExternalIdentity lists while another user
\* holds a row
C21_Witness ==
    \E r \in Slots :
      /\ Done(r, "list")
      /\ req[r].res.status = 200
      /\ req[r].res.watchlist = <<>>
      /\ Len(watchlist) > 0
      /\ \E u \in users : /\ u.id = req[r].in.auth.userId
                          /\ u.password = NULL
                          /\ u.google_id # NULL


\* the tables are as they were and the request is answered in the step in
\* which it arrives, before any step that queries the store
RefusedAtOnce(r) ==
    /\ req'[r].pc = "done"
    /\ req'[r].res.status = 400
    /\ users' = users
    /\ watchlist' = watchlist

\* C22: Register with a malformed email or a password of fewer than 6
\* characters, Add with an empty symbol or name and ToggleFavorite with an
\* isFavorite that is no boolean are answered 400 on arrival, before any
\* query of the store, and both tables are as they were.
C22_ValidationFirst ==
    [][\A r \in Slots :
         req[r].op = "idle" /\ req'[r].op # "idle" =>
           LET in == req'[r].in
           IN  /\ (/\ req'[r].op = "register"
                   /\ \/ in.rawEmail \notin {"ann@x.com", "j.doe@gmail.com"}
                      \/ Len(in.password) < 6)
                  => RefusedAtOnce(r) /\ req'[r].res.errors # Absent
               /\ (/\ req'[r].op = "add"
                   /\ in.auth.key = "server"
                   /\ in.symbol = "" \/ in.name = "")
                  => RefusedAtOnce(r)
               /\ (/\ req'[r].op = "favorite"
                   /\ in.auth.key = "server"
                   /\ in.fav \notin {"true", "false"})
                  => RefusedAtOnce(r)]_vars

\* a Register with a free email and a password of three characters was
\* refused while both tables hold rows
C22_Witness ==
    \E r \in Slots :
      /\ Done(r, "register")
      /\ req[r].in.rawEmail = "j.doe@gmail.com"
      /\ req[r].in.password = "abc"
      /\ req[r].pre.emailFree
      /\ req[r].res = ValidationFailed
      /\ users # {}
      /\ Len(watchlist) > 0


\* C23: ToggleFavorite(symbol, b) on an entry the caller has sets the flag of
\* that entry to b, leaves its user id, symbol, name and added-at and every
\* other row as they were, and answers 200 with a message that says
\* 'favorited' when b is true and 'unfavorited' when b is false.
C23_FavoriteFrame ==
    [][\A r \in Slots :
         Answered(r, "favorite") /\ req[r].pc = "fav_update" /\ Mine(watchlist, r) # {} =>
           LET b == (req[r].in.fav = "true")
           IN  /\ Len(watchlist') = Len(watchlist)
               /\ \A i \in 1..Len(watchlist) :
                    IF i \in Mine(watchlist, r)
                    THEN watchlist'[i] =
                           [user_id |-> watchlist[i].user_id, symbol |-> watchlist[i].symbol,
                            name |-> watchlist[i].name, is_favorite |-> b,
                            added_at |-> watchlist[i].added_at]
                    ELSE watchlist'[i] = watchlist[i]
               /\ req'[r].res =
                    Msg(200, IF b THEN "Stock favorited successfully"
                                  ELSE "Stock unfavorited successfully")]_vars

\* a favorite entry of the caller was unfavorited while the table holds a
\* favorite of another user and another entry of the caller
C23_Witness ==
    \E r \in Slots :
      /\ Done(r, "favorite")
      /\ req[r].pre.wasFavorite
      /\ req[r].in.fav = "false"
      /\ req[r].res = Msg(200, "Stock unfavorited successfully")
      /\ \A i \in Mine(watchlist, r) : ~watchlist[i].is_favorite
      /\ \E i, j \in 1..Len(watchlist) :
           /\ watchlist[i].user_id # req[r].in.auth.userId
           /\ watchlist[i].is_favorite
           /\ watchlist[j].user_id = req[r].in.auth.userId
           /\ watchlist[j].symbol # req[r].in.symbol


\* C24: a request whose store query fails is answered 500 with the message
\* 'Server error' and no other field; and a request that has been answered
\* keeps that one response until the client has read it.
C24_StoreFailure ==
    [][\A r \in Slots :
         /\ (req[r].pc # "done" /\ req'[r].pc = "done" /\ req'[r].pre.storeFailed)
            => /\ req'[r].res.status = 500
               /\ req'[r].res.message = "Server error"
               /\ req'[r].res = [NoRes EXCEPT !.status = 500, !.message = "Server error"]
         /\ req[r].pc = "done"
            => /\ req[r].res.status # 0
               /\ req'[r] = req[r] \/ req'[r] = Idle]_vars

\* the INSERT of a Register succeeded and the SELECT after it failed: the row
\* is stored and the request was answered 500
C24_Witness ==
    \E r \in Slots :
      /\ Done(r, "register")
      /\ req[r].pre.storeFailed
      /\ req[r].res = Msg(500, "Server error")
      /\ \E u \in users : u.email = req[r].in.email /\ u.id = req[r].user.id


\* C25: the body of every response has a message field, and the body of a
\* validation failure has the list of field errors as well.
C25_MessageField ==
    \A r \in Slots :
      req[r].pc = "done" =>
        /\ req[r].res.message # Absent
        /\ req[r].res = ValidationFailed => req[r].res.errors # Absent


\* the user a first login with the identity of request r created: no other
\* statement stores a row without password hash
CreatedBy(r) ==
    {u \in users : /\ u.email = req[r].in.cred.email
                   /\ u.google_id = req[r].in.cred.sub
                   /\ u.password = NULL}

\* C26: with requests served one at a time, a LoginWithExternalIdentity whose
\* verified identity matches no stored user by external id or by email
\* creates exactly one user with that email and external id and a null
\* password; every later LoginWithExternalIdentity with the same identity
\* creates no further row and returns the token and user view of that user.
C26_GoogleCreateOnce ==
    [][\A r \in Slots :
         /\ req[r].pc = "g_select" /\ Matched(r) = {} => req'[r].pc = "g_insert"
         /\ req[r].pc = "g_insert" =>
              \E row \in users' \ users :
                /\ users' = users \cup {row}
                /\ row.email = req[r].in.cred.email
                /\ row.google_id = req[r].in.cred.sub
                /\ row.password = NULL
         /\ Answered(r, "google") /\ req'[r].res.status = 200 =>
              \A u \in CreatedBy(r) :
                /\ users' = users
                /\ req'[r].res.user.id = u.id
                /\ req'[r].res.token.userId = u.id]_vars


\* C30: a successful LoginWithExternalIdentity returns the token and user
\* view of the stored user whose external identity id equals the verified
\* token's subject, also when a different stored user matches the token's
\* email; and the account it returns has an external identity id equal to
\* the token's subject.
C30_GoogleSubMatch ==
    [][\A r \in Slots :
         Answered(r, "google") /\ req'[r].res.status = 200 =>
           /\ \A u \in users :
                u.google_id = req[r].in.cred.sub =>
                  /\ req'[r].res.user.id = u.id
                  /\ req'[r].res.token.userId = u.id
           /\ \E v \in users' :
                /\ v.id = req'[r].res.user.id
                /\ v.google_id = req[r].in.cred.sub]_vars


\* C29: Login and List are read-only: whatever the input and whatever the
\* outcome, failures of the store included, no step of a Login request
\* changes the users table and no step of a List request changes the
\* watchlist table.
C29_ReadOnly ==
    [][\A r \in Slots :
         /\ req'[r] # req[r] /\ req'[r].op = "login" => users' = users
         /\ req'[r] # req[r] /\ req'[r].op = "list" => watchlist' = watchlist]_vars

\* a Login has succeeded for a user who holds watchlist rows
C29_Witness ==
    \E r \in Slots :
      /\ Done(r, "login")
      /\ req[r].res.status = 200
      /\ \E u \in users : u.id = req[r].res.user.id
      /\ \E i \in 1..Len(watchlist) : watchlist[i].user_id = req[r].res.user.id


\* C27: after Logout in the browser client, local storage holds neither the
\* auth token nor any cached data the pages wrote during the session, the
\* per-user watchlist cache keys and the news cache flag included.
C27_LogoutClearsStorage ==
    [][client.page # "login" /\ client'.page = "login" =>
         /\ client'.token = NoToken
         /\ \A k \in StorageKeys : client'.storage[k] = Absent]_vars


\* C28: when the Watchlist page has mounted with a valid token and no cached
\* data of that user, the automatic refresh has requested prices for exactly
\* the symbols of the user's watchlist on the server, whichever comes first
\* of the response of the watchlist fetch and the start of the refresh; it
\* has not stored, under the user's cache key and marked as real data, a
\* price list computed from an empty watchlist while the server watchlist is
\* non-empty.
C28_AutoRefresh ==
    /\ client.page = "watchlists"
    /\ client.refresh.pc = "stored"
    /\ client.refresh.live
    /\ AuthFailure(client.token) = NoRes
    => LET rows == SelectOfUser(watchlist, client.token.userId)
       IN  /\ Range(client.refresh.symbols) = {rows[i].symbol : i \in 1..Len(rows)}
           /\ ~ /\ client.refresh.symbols = <<>>
                /\ rows # <<>>
                /\ client.storage[WatchlistRealKey(client.refresh.userId)] = "true"

====
